---- MODULE Spec2Model ----
(***************************************************************************)
(* Model of shell_emulator.py: the VFS (nested dicts, working directory),  *)
(* the command dispatcher handle_command, and the two drivers               *)
(* run_startup_script and repl, as main() chains them.                      *)
(*                                                                          *)
(* Python strings are sequences of one-character strings, so that split,   *)
(* strip, join, startswith and the tokenizer are computed, not assumed.    *)
(* A Python value stored in the tree is a record [t, s, kv]:                *)
(*   t = "dict"  : a dict, kv its items in insertion order                 *)
(*   t = "str"   : a str, s its characters                                  *)
(*   t = "bytes" : a bytes payload (content never read by any command)      *)
(***************************************************************************)
EXTENDS Integers, Sequences, FiniteSets, TLC

VARIABLES root, cwd, command_history, pc, prompt, script, idx, nrepl,
          call, out, dispatched

vars == <<root, cwd, command_history, pc, prompt, script, idx, nrepl,
          call, out, dispatched>>

(***************************************************************************)
(* Bounds                                                                   *)
(***************************************************************************)
MaxEntries == 2
MaxScript == 2
MaxRepl == 2

(***************************************************************************)
(* Python str methods                                                       *)
(***************************************************************************)
SLASH == "/"

StartsWith(s, ch) == Len(s) > 0 /\ s[1] = ch

RECURSIVE LStrip(_, _)
LStrip(s, chars) ==
    IF s # <<>> /\ Head(s) \in chars THEN LStrip(Tail(s), chars) ELSE s

RECURSIVE RStrip(_, _)
RStrip(s, chars) ==
    IF s # <<>> /\ s[Len(s)] \in chars
    THEN RStrip(SubSeq(s, 1, Len(s) - 1), chars)
    ELSE s

Strip(s, chars) == LStrip(RStrip(s, chars), chars)

\* str.split(sep): always at least one field; empty fields are kept
RECURSIVE SplitAcc(_, _, _)
SplitAcc(s, sep, cur) ==
    IF s = <<>> THEN <<cur>>
    ELSE IF Head(s) = sep THEN <<cur>> \o SplitAcc(Tail(s), sep, <<>>)
    ELSE SplitAcc(Tail(s), sep, Append(cur, Head(s)))

Split(s, sep) == SplitAcc(s, sep, <<>>)

\* sep.join(parts)
RECURSIVE Join(_, _)
Join(sep, parts) ==
    IF parts = <<>> THEN <<>>
    ELSE IF Len(parts) = 1 THEN parts[1]
    ELSE parts[1] \o sep \o Join(sep, Tail(parts))

\* s.replace(old, new) for a non-empty old
RECURSIVE Replace(_, _, _)
Replace(s, old, new) ==
    IF Len(s) < Len(old) THEN s
    ELSE IF SubSeq(s, 1, Len(old)) = old
         THEN new \o Replace(SubSeq(s, Len(old) + 1, Len(s)), old, new)
         ELSE <<Head(s)>> \o Replace(Tail(s), old, new)

(***************************************************************************)
(* Python values of the tree                                                *)
(***************************************************************************)
EmptyDict == [t |-> "dict", s |-> <<>>, kv |-> <<>>]
StrVal(chars) == [t |-> "str", s |-> chars, kv |-> <<>>]
BytesVal == [t |-> "bytes", s |-> <<>>, kv |-> <<>>]
None == [t |-> "None", s |-> <<>>, kv |-> <<>>]
\* the load was abandoned by an exception (AttributeError / TypeError)
Raised == [t |-> "raised", s |-> <<>>, kv |-> <<>>]

K_type == <<"t", "y", "p", "e">>
K_data == <<"d", "a", "t", "a">>
S_file == <<"f", "i", "l", "e">>

IsDict(v) == v.t = "dict"

\* k in d
Has(d, k) == \E i \in 1..Len(d.kv) : d.kv[i].k = k

\* d[k], for k in d
Get(d, k) == d.kv[CHOOSE i \in 1..Len(d.kv) : d.kv[i].k = k].v

\* d[k] = v : an existing key keeps its position, a new key goes last
Put(d, k, v) ==
    IF Has(d, k)
    THEN [d EXCEPT !.kv = [i \in 1..Len(d.kv) |->
                             IF d.kv[i].k = k THEN [k |-> k, v |-> v]
                             ELSE d.kv[i]]]
    ELSE [d EXCEPT !.kv = Append(d.kv, [k |-> k, v |-> v])]

\* list(d.keys())
Keys(d) == [i \in 1..Len(d.kv) |-> d.kv[i].k]

\* {'type': 'file', 'data': data}
FileDict == [t |-> "dict", s |-> <<>>,
             kv |-> <<[k |-> K_type, v |-> StrVal(S_file)],
                      [k |-> K_data, v |-> BytesVal]>>]

\* 'type' in node and node['type'] == 'file'
TaggedFile(node) ==
    Has(node, K_type) /\ Get(node, K_type).t = "str"
                      /\ Get(node, K_type).s = S_file

(***************************************************************************)
(* class VFS                                                                *)
(***************************************************************************)
\* cur.setdefault(p, {}) : the value now stored under p
SetDefault(cur, p) == IF Has(cur, p) THEN Get(cur, p) ELSE EmptyDict

\* VFS.add_file below the node `node`; Raised when a step lands on a str or
\* bytes value (no setdefault, no item assignment)
RECURSIVE AddFileAt(_, _)
AddFileAt(node, parts) ==
    IF ~IsDict(node) THEN Raised
    ELSE IF Len(parts) = 1 THEN Put(node, parts[1], FileDict)
    ELSE LET sub == AddFileAt(SetDefault(node, Head(parts)), Tail(parts))
         IN  IF sub = Raised THEN Raised ELSE Put(node, Head(parts), sub)

add_file(tree, path) == AddFileAt(tree, Split(path, SLASH))

\* VFS.add_dir below the node `node`
RECURSIVE AddDirAt(_, _)
AddDirAt(node, parts) ==
    IF parts = <<>> THEN node
    ELSE IF ~IsDict(node) THEN Raised
    ELSE LET sub == AddDirAt(SetDefault(node, Head(parts)), Tail(parts))
         IN  IF sub = Raised THEN Raised ELSE Put(node, Head(parts), sub)

add_dir(tree, path) == AddDirAt(tree, Split(path, SLASH))

\* the loop of VFS.resolve over the segments
RECURSIVE ResolveFrom(_, _)
ResolveFrom(cur, parts) ==
    IF parts = <<>> THEN cur
    ELSE IF Head(parts) = <<>> \/ Head(parts) = <<".">>
         THEN ResolveFrom(cur, Tail(parts))
    ELSE IF ~Has(cur, Head(parts)) \/ ~IsDict(Get(cur, Head(parts)))
         THEN None
    ELSE ResolveFrom(Get(cur, Head(parts)), Tail(parts))

\* a path argument of resolve: a str or a list of segments
StrArg(chars) == [kind |-> "str", str |-> chars, list |-> <<>>]
ListArg(parts) == [kind |-> "list", str |-> <<>>, list |-> parts]

ValueError == [t |-> "ValueError", s |-> <<>>, kv |-> <<>>]

\* VFS.resolve: the node, None, or ValueError for a relative str
resolve(tree, path) ==
    IF path.kind = "str"
    THEN IF StartsWith(path.str, SLASH)
         THEN ResolveFrom(tree,
                 IF Strip(path.str, {SLASH}) # <<>>
                 THEN Split(Strip(path.str, {SLASH}), SLASH) ELSE <<>>)
         ELSE ValueError
    ELSE ResolveFrom(tree, path.list)

\* the normalisation loop of VFS.cd
\* the normalisation of VFS.cd with `..` at the root kept as a segment
RECURSIVE Normalize_NoClamp(_, _)
Normalize_NoClamp(new_parts, resolved_cwd) ==
    IF new_parts = <<>> THEN resolved_cwd
    ELSE LET part == Head(new_parts) IN
         IF part = <<".">> \/ part = <<>>
         THEN Normalize_NoClamp(Tail(new_parts), resolved_cwd)
         ELSE IF part = <<".", ".">> /\ resolved_cwd # <<>>
         THEN Normalize_NoClamp(Tail(new_parts),
                 SubSeq(resolved_cwd, 1, Len(resolved_cwd) - 1))
         ELSE Normalize_NoClamp(Tail(new_parts), Append(resolved_cwd, part))

RECURSIVE Normalize(_, _)
Normalize(new_parts, resolved_cwd) ==
    IF new_parts = <<>> THEN resolved_cwd
    ELSE LET part == Head(new_parts) IN
         IF part = <<".">> \/ part = <<>>
         THEN Normalize(Tail(new_parts), resolved_cwd)
         ELSE IF part = <<".", ".">>
         THEN Normalize(Tail(new_parts),
                 IF resolved_cwd # <<>>
                 THEN SubSeq(resolved_cwd, 1, Len(resolved_cwd) - 1)
                 ELSE resolved_cwd)
         ELSE Normalize(Tail(new_parts), Append(resolved_cwd, part))

\* the segments VFS.cd starts from
CdParts(wd, path) ==
    IF StartsWith(path, SLASH)
    THEN IF Strip(path, {SLASH}) # <<>>
         THEN Split(Strip(path, {SLASH}), SLASH) ELSE <<>>
    ELSE wd \o (IF path # <<>> THEN Split(path, SLASH) ELSE <<>>)

\* VFS.cd assigning the candidate path before it is checked
cd_AssignFirst(tree, wd, path) ==
    LET resolved_cwd == Normalize(CdParts(wd, path), <<>>)
        target_node == resolve(tree, ListArg(resolved_cwd))
    IN  IF target_node = None THEN [ok |-> FALSE, cwd |-> resolved_cwd]
        ELSE IF TaggedFile(target_node)
        THEN [ok |-> FALSE, cwd |-> resolved_cwd]
        ELSE [ok |-> TRUE, cwd |-> resolved_cwd]

\* VFS.cd without its check that the target is not a file
cd_NoFileCheck(tree, wd, path) ==
    LET resolved_cwd == Normalize(CdParts(wd, path), <<>>)
        target_node == resolve(tree, ListArg(resolved_cwd))
    IN  IF target_node = None THEN [ok |-> FALSE, cwd |-> wd]
        ELSE [ok |-> TRUE, cwd |-> resolved_cwd]

\* VFS.cd: the value returned and the working directory afterwards
cd(tree, wd, path) ==
    LET resolved_cwd == Normalize(CdParts(wd, path), <<>>)
        target_node == resolve(tree, ListArg(resolved_cwd))
    IN  IF target_node = None THEN [ok |-> FALSE, cwd |-> wd]
        ELSE IF TaggedFile(target_node) THEN [ok |-> FALSE, cwd |-> wd]
        ELSE [ok |-> TRUE, cwd |-> resolved_cwd]

MSG_ls_notdir == <<"l","s",":"," ","n","o","t"," ","a"," ","d","i","r">>

\* VFS.ls: the list returned and what it prints itself
ls(tree, wd) ==
    LET node == resolve(tree, ListArg(wd)) IN
    IF node = None THEN [items |-> <<>>, printed |-> <<>>]
    ELSE IF TaggedFile(node)
         THEN [items |-> <<>>, printed |-> <<MSG_ls_notdir>>]
    ELSE [items |-> Keys(node), printed |-> <<>>]

\* a pwd that joins the segments without the leading slash
pwd_Relative(wd) == Join(<<SLASH>>, wd)

\* VFS.pwd
pwd(wd) == <<SLASH>> \o Join(<<SLASH>>, wd)

(***************************************************************************)
(* Utilities: expand_env, make_prompt, parse_input                          *)
(***************************************************************************)
\* the process environment (os.environ) and the host name
Environ == <<[name |-> <<"U","S","E","R">>, value |-> <<"u">>]>>
HostName == <<"h">>

\* os.environ.get(name, dflt)
EnvGet(name, dflt) ==
    IF \E i \in 1..Len(Environ) : Environ[i].name = name
    THEN Environ[CHOOSE i \in 1..Len(Environ) : Environ[i].name = name].value
    ELSE dflt

\* the ASCII characters \w matches
WordChars == {"a","b","c","d","e","f","g","h","i","j","k","l","m",
              "n","o","p","q","r","s","t","u","v","w","x","y","z",
              "A","B","C","D","E","F","G","H","I","J","K","L","M",
              "N","O","P","Q","R","S","T","U","V","W","X","Y","Z",
              "0","1","2","3","4","5","6","7","8","9","_"}

\* the character \0 that expand_env parks an escaped dollar in
NUL == "NUL"

\* the longest prefix of s made of characters in `chars`
RECURSIVE TakeWhile(_, _)
TakeWhile(s, chars) ==
    IF s # <<>> /\ Head(s) \in chars
    THEN <<Head(s)>> \o TakeWhile(Tail(s), chars)
    ELSE <<>>

\* the prefix of s before the first occurrence of ch (all of s if none)
RECURSIVE Before(_, _)
Before(s, ch) ==
    IF s = <<>> \/ Head(s) = ch THEN <<>>
    ELSE <<Head(s)>> \o Before(Tail(s), ch)

\* pattern.sub(repl, token) for \$(\w+)|\$\{([^}]+)\}
RECURSIVE SubstEnv(_)
SubstEnv(s) ==
    IF s = <<>> THEN <<>>
    ELSE IF Head(s) # "$" THEN <<Head(s)>> \o SubstEnv(Tail(s))
    ELSE LET rest == Tail(s)
             word == TakeWhile(rest, WordChars)
             inner == IF rest # <<>> /\ Head(rest) = "{"
                      THEN Before(Tail(rest), "}") ELSE <<>>
         IN  IF word # <<>>
             THEN EnvGet(word, <<>>)
                  \o SubstEnv(SubSeq(rest, Len(word) + 1, Len(rest)))
             ELSE IF inner # <<>> /\ Len(rest) >= Len(inner) + 2
             THEN EnvGet(inner, <<>>)
                  \o SubstEnv(SubSeq(rest, Len(inner) + 3, Len(rest)))
             ELSE <<"$">> \o SubstEnv(rest)

expand_env(token) ==
    Replace(SubstEnv(Replace(token, <<"\\", "$">>, <<NUL>>)), <<NUL>>, <<"$">>)

\* make_prompt; an absent or empty override is <<>>
make_prompt(wd, prompt_override) ==
    LET user == IF EnvGet(<<"U","S","E","R">>, <<>>) # <<>> THEN EnvGet(<<"U","S","E","R">>,
        <<>>)
                ELSE IF EnvGet(<<"U","S","E","R","N","A","M","E">>, <<>>) # <<>>
                     THEN EnvGet(<<"U","S","E","R","N","A","M","E">>, <<>>)
                ELSE <<"u","s","e","r">>
    IN  IF prompt_override # <<>>
        THEN Replace(Replace(Replace(prompt_override, <<"%","u">>, user),
                             <<"%","h">>, HostName), <<"%","d">>, pwd(wd))
        ELSE user \o <<"@">> \o HostName \o <<":">> \o pwd(wd) \o <<"$"," ">>

\* shlex.split over the characters the model writes: blanks separate
\* tokens, ' and " quote; q is the open quote ("" when none), has tells
\* whether a token has been started
RECURSIVE Shlex(_, _, _, _, _)
Shlex(s, toks, cur, has, q) ==
    IF s = <<>>
    THEN IF q # "" THEN [ok |-> FALSE, toks |-> <<>>]
         ELSE [ok |-> TRUE, toks |-> IF has THEN Append(toks, cur) ELSE toks]
    ELSE LET ch == Head(s) IN
         IF q # ""
         THEN IF ch = q THEN Shlex(Tail(s), toks, cur, TRUE, "")
              ELSE Shlex(Tail(s), toks, Append(cur, ch), TRUE, q)
         ELSE IF ch \in {" ", "\t", "\n"}
         THEN Shlex(Tail(s), IF has THEN Append(toks, cur) ELSE toks,
                    <<>>, FALSE, "")
         ELSE IF ch \in {"\"", "'"}
         THEN Shlex(Tail(s), toks, cur, TRUE, ch)
         ELSE Shlex(Tail(s), toks, Append(cur, ch), TRUE, "")

\* a parse_input that returns (None, None) for a line without tokens
parse_input_EmptyIsNone(line) ==
    LET parts == Shlex(line, <<>>, <<>>, FALSE, "")
        expanded == [i \in 1..Len(parts.toks) |-> expand_env(parts.toks[i])]
    IN  IF ~parts.ok \/ expanded = <<>>
        THEN [ok |-> FALSE, cmd |-> <<>>, args |-> <<>>, printed |-> <<>>]
        ELSE [ok |-> TRUE, cmd |-> expanded[1], args |-> Tail(expanded),
              printed |-> <<>>]

\* parse_input: ok = FALSE stands for (None, None)
parse_input(line) ==
    LET parts == Shlex(line, <<>>, <<>>, FALSE, "")
        expanded == [i \in 1..Len(parts.toks) |-> expand_env(parts.toks[i])]
    IN  IF ~parts.ok
        THEN [ok |-> FALSE, cmd |-> <<>>, args |-> <<>>,
              printed |-> <<<<"P","a","r","s","e"," ","e","r","r","o","r",":"," ","N","o"," ",
                  "c","l","o","s","i","n","g"," ","q","u","o","t","a","t","i","o","n">>>>]
        ELSE IF expanded = <<>>
        THEN [ok |-> TRUE, cmd |-> <<>>, args |-> <<>>, printed |-> <<>>]
        ELSE [ok |-> TRUE, cmd |-> expanded[1], args |-> Tail(expanded),
              printed |-> <<>>]

(***************************************************************************)
(* handle_command                                                           *)
(***************************************************************************)
DigitChars == <<"0","1","2","3","4","5","6","7","8","9">>

\* str(n) for n >= 0
RECURSIVE IntToStr(_)
IntToStr(n) ==
    IF n < 10 THEN <<DigitChars[n + 1]>>
    ELSE IntToStr(n \div 10) \o <<DigitChars[(n % 10) + 1]>>

\* f"{i:3}" : right-justified in (at least) three columns
Fmt3(i) ==
    LET d == IntToStr(i)
    IN  [j \in 1..(IF Len(d) < 3 THEN 3 - Len(d) ELSE 0) |-> " "] \o d

\* find_recursive over the items of one dict, in insertion order
RECURSIVE FindItems(_, _, _)
FindItems(items, current_path, search_name) ==
    IF items = <<>> THEN <<>>
    ELSE LET key == Head(items).k
             value == Head(items).v
             full_path == IF current_path # <<>>
                          THEN current_path \o <<SLASH>> \o key ELSE key
         IN  (IF key = search_name THEN <<full_path>> ELSE <<>>)
             \o (IF IsDict(value) /\ ~Has(value, K_type)
                 THEN FindItems(value.kv, full_path, search_name)
                 ELSE <<>>)
             \o FindItems(Tail(items), current_path, search_name)

find_recursive(node, current_path, search_name) ==
    FindItems(node.kv, current_path, search_name)

\* the static listing of `help` (its one non-ASCII word written "return")
HelpText == <<<<"A","v","a","i","l","a","b","l","e"," ","c","o","m","m","a","n","d","s",":">>,
    <<" "," ","e","x","i","t">>, <<" "," ","e","c","h","o"," ","<","a","r","g",">">>,
              <<" "," ","p","w","d">>, <<" "," ","l","s">>, <<" "," ","c","d"," ","<","p","a",
                  "t","h",">">>, <<" ","c","d"," ",".","."," ","(","r","e","t","u","r","n",
                  ")">>,
              <<" "," ","f","i","n","d"," ","<","f","i","l","e","_","o","r","_","c","a","t","a",
                  "l","o","g",">">>, <<" "," ","h","i","s","t","o","r","y">>, <<" "," ","h","e",
                  "l","p">>>>

\* a failure policy that ignores the mode: always Continue, always Stop
FailPolicy_AlwaysContinue(script_mode) == TRUE
FailPolicy_AlwaysStop(script_mode) == FALSE

\* the value a failing command returns: False if script_mode else True
FailPolicy(script_mode) == IF script_mode THEN FALSE ELSE TRUE

\* handle_command: the value returned, the working directory afterwards and
\* the lines printed
handle_command(cmd, args, tree, wd, hist, script_mode) ==
    IF cmd = <<"e","x","i","t">>
    THEN [ret |-> FALSE, cwd |-> wd, printed |-> <<>>]
    ELSE IF cmd = <<"e","c","h","o">>
    THEN [ret |-> TRUE, cwd |-> wd, printed |-> <<Join(<<" ">>, args)>>]
    ELSE IF cmd = <<"p","w","d">>
    THEN [ret |-> TRUE, cwd |-> wd, printed |-> <<pwd(wd)>>]
    ELSE IF cmd = <<"l","s">>
    THEN LET r == ls(tree, wd) IN
         [ret |-> TRUE, cwd |-> wd,
          printed |-> r.printed \o (IF r.items # <<>>
                                    THEN <<Join(<<" "," ">>, r.items)>>
                                    ELSE <<>>)]
    ELSE IF cmd = <<"c","d">>
    THEN IF args = <<>>
         THEN [ret |-> FailPolicy(script_mode), cwd |-> wd,
               printed |-> <<<<"c","d",":"," ","m","i","s","s","i","n","g"," ","a","r","g","u",
                   "m","e","n","t">>>>]
         ELSE LET r == cd(tree, wd, args[1]) IN
              IF ~r.ok
              THEN [ret |-> FailPolicy(script_mode), cwd |-> r.cwd,
                    printed |-> <<<<"c","d",":"," ","n","o"," ","s","u","c","h"," ","d","i","r",
                        "e","c","t","o","r","y",":"," ">> \o args[1]>>]
              ELSE [ret |-> TRUE, cwd |-> r.cwd, printed |-> <<>>]
    ELSE IF cmd = <<"f","i","n","d">>
    THEN IF args = <<>>
         THEN [ret |-> FailPolicy(script_mode), cwd |-> wd,
               printed |-> <<<<"f","i","n","d",":"," ","m","i","s","s","i","n","g"," ","a","r",
                   "g","u","m","e","n","t">>>>]
         ELSE [ret |-> TRUE, cwd |-> wd,
               printed |-> find_recursive(tree, <<>>, args[1])]
    ELSE IF cmd = <<"h","i","s","t","o","r","y">>
    THEN [ret |-> TRUE, cwd |-> wd,
          printed |-> [i \in 1..Len(hist) |-> Fmt3(i) \o <<":"," ">> \o hist[i]]]
    ELSE IF cmd = <<"h","e","l","p">>
    THEN [ret |-> TRUE, cwd |-> wd, printed |-> HelpText]
    ELSE [ret |-> FailPolicy(script_mode), cwd |-> wd,
          printed |-> <<<<"C","o","m","m","a","n","d"," ","n","o","t"," ","f","o","u","n","d",
              ":"," ">> \o cmd>>]

(***************************************************************************)
(* load_vfs_from_zip                                                        *)
(***************************************************************************)
EndsWith(s, ch) == Len(s) > 0 /\ s[Len(s)] = ch

\* the loop over z.namelist(); Raised when add_dir / add_file raises
RECURSIVE LoadEntries(_, _)
LoadEntries(tree, names) ==
    IF names = <<>> THEN tree
    ELSE LET name == Head(names)
             v == IF EndsWith(name, SLASH)
                  THEN add_dir(tree, RStrip(name, {SLASH}))
                  ELSE add_file(tree, name)
         IN  IF v = Raised THEN Raised ELSE LoadEntries(v, Tail(names))

\* an archive: whether zipfile can open it, and its name list
Archive(names) == [readable |-> TRUE, names |-> names]
BadArchive == [readable |-> FALSE, names |-> <<>>]

\* load_vfs_from_zip: the root of the VFS built, or None after any exception
load_vfs_from_zip(archive) ==
    IF ~archive.readable THEN None
    ELSE LET v == LoadEntries(EmptyDict, archive.names)
         IN  IF v = Raised THEN None ELSE v

(***************************************************************************)
(* Inputs                                                                   *)
(***************************************************************************)
\* sequences over S of length 0..n
RECURSIVE SeqUpTo(_, _)
SeqUpTo(S, n) ==
    IF n = 0 THEN {<<>>}
    ELSE LET shorter == SeqUpTo(S, n - 1)
         IN  shorter \cup {Append(q, e) : q \in {r \in shorter : Len(r) = n - 1},
                                          e \in S}

\* entry names of the archives the VFS is built from
ZipNames == {<<"a","/">>, <<"a","/","b","/">>, <<"f">>, <<"f","/","x","/">>, <<"f","/","t","y",
    "p","e">>, <<"a","/","t","y","p","e">>,
             <<"a","/","/","b","/">>}

VfsArchives == {Archive(n) : n \in SeqUpTo(ZipNames, MaxEntries)}
                 \cup {BadArchive}

\* the archive of the scenario: directories a, a/b, files a/b/c.txt and f
ScenarioArchive == Archive(<<<<"a","/">>, <<"a","/","b","/">>, <<"a","/","b","/","c",".","t","x",
    "t">>, <<"f">>>>)

DriverArchives == {ScenarioArchive, BadArchive}

\* path arguments of cd
CdPaths == {<<"a">>, <<"a","/","b">>, <<".",".">>, <<"/">>, <<"x","/",".",".">>, <<"f">>, <<"f","/","x">>,
            <<"/","a","/",".","/","b","/",".",".">>, <<"a","/","t","y","p","e">>, <<"x">>, <<".","/",".",".">>}

FindNames == {<<"a">>, <<"b">>, <<"t","y","p","e">>, <<"z","z">>}

\* (cmd, args) pairs handed to handle_command directly
Calls ==
    {<<<<"c","d">>, <<p>>>> : p \in CdPaths} \cup {<<<<"c","d">>, <<>>>>}
    \cup {<<<<"f","i","n","d">>, <<n>>>> : n \in FindNames} \cup {<<<<"f","i","n","d">>, <<>>>>}
    \cup {<<c, <<>>>> : c \in {<<"p","w","d">>, <<"l","s">>, <<"h","i","s","t","o","r","y">>,
        <<"h","e","l","p">>,
                                <<"e","x","i","t">>, <<"f","o","o">>, <<>>}}
    \cup {<<<<"e","c","h","o">>, <<<<"a">>, <<"b">>>>>>, <<<<"e","x","i","t">>, <<<<"a">>>>>>}

\* arguments of direct calls to resolve
ResolveArgs ==
    {StrArg(p) : p \in {<<"/">>, <<"/","a","/","b">>, <<"/","a","/",".",".">>, <<"/",".",".">>,
        <<"/","f">>,
                        <<"/","/","a","/",".","/","b","/">>, <<"a">>}}
    \cup {ListArg(l) : l \in {<<<<"a">>, <<".",".">>>>, <<<<"f">>, <<"x">>>>}}

\* raw lines typed at the prompt or read from the startup script
Lines == {<<"c","d"," ","a">>, <<"c","d"," ",".",".">>, <<"c","d"," ","x">>, <<"c","d">>, <<"f","o","o">>, <<"e","x","i","t">>,
          <<" ","#"," ","c">>, <<>>, <<" ">>, <<"e","c","h","o"," ","\"","a">>, <<"h","i","s","t","o","r","y">>}

\* f.readlines(): every line keeps its newline
Scripts == {[i \in 1..Len(q) |-> q[i] \o <<"\n">>] :
               q \in SeqUpTo(Lines, MaxScript)}

\* values of --prompt (<<>> when absent)
PromptOverrides == {<<>>, <<"%","u","@","%","h"," ","%","d",">"," ">>}

(***************************************************************************)
(* State machine of main()                                                  *)
(*   pc: "start" -> "loaded" -> ("script" ->) "repl" -> "exit0", or "exit1" *)
(*   call: the last operation performed, the working directory it started  *)
(*         from (wd) and what it returned                                   *)
(*   out: the lines the last operation printed                              *)
(*   dispatched: the raw lines handle_command has been called for           *)
(***************************************************************************)
NoCall == [op |-> "none", cmd |-> <<>>, args |-> <<>>, script_mode |-> FALSE,
           ret |-> TRUE, line |-> <<>>, path |-> ListArg(<<>>), res |-> None,
           wd |-> <<>>]

Init ==
    /\ root = EmptyDict
    /\ cwd = <<>>
    /\ command_history = <<>>
    /\ pc = "start"
    /\ prompt \in PromptOverrides
    /\ script = <<>>
    /\ idx = 1
    /\ nrepl = 0
    /\ call = NoCall
    /\ out = <<>>
    /\ dispatched = <<>>

WS == {" ", "\t", "\n", "\r"}

\* a history that records the newest line first
RecordHistory_Prepend(hist, line) == <<line>> \o hist

\* an append that drops a line equal to the last entry
RecordHistory_SkipRepeat(hist, line) ==
    IF hist # <<>> /\ hist[Len(hist)] = line THEN hist ELSE Append(hist, line)

\* command_history.append(line)
RecordHistory(hist, line) == Append(hist, line)

\* a script loop that ignores the value handle_command returns
AfterScriptDispatch_Continue(ok) == "script"

\* where run_startup_script goes after a dispatch: on, or out with False
AfterScriptDispatch(ok) == IF ok THEN "script" ELSE "exit1"

\* where repl goes after a dispatch: on, or break
AfterReplDispatch(cont) == IF cont THEN "repl" ELSE "exit0"

\* main: vfs = load_vfs_from_zip(args.vfs_path)
LoadVFS(archive) ==
    /\ pc = "start"
    /\ LET v == load_vfs_from_zip(archive) IN
       IF v = None
       THEN /\ pc' = "exit1"
            /\ root' = root
            /\ out' = <<<<"V","F","S"," ","l","o","a","d"," ","e","r","r","o","r">>, <<"F","a",
                "i","l","e","d"," ","t","o"," ","l","o","a","d"," ","V","F","S",".">>>>
       ELSE /\ pc' = "loaded"
            /\ root' = v
            /\ out' = <<>>
    /\ call' = [NoCall EXCEPT !.op = "load"]
    /\ UNCHANGED <<cwd, command_history, prompt, script, idx, nrepl,
                   dispatched>>

\* main without --startup-script
NoStartupScript ==
    /\ pc = "loaded"
    /\ pc' = "repl"
    /\ call' = [NoCall EXCEPT !.op = "noscript"]
    /\ out' = <<>>
    /\ UNCHANGED <<root, cwd, command_history, prompt, script, idx, nrepl,
                   dispatched>>

\* run_startup_script: the file is missing or cannot be read
ScriptUnreadable ==
    /\ pc = "loaded"
    /\ pc' = "exit1"
    /\ call' = [NoCall EXCEPT !.op = "noread"]
    /\ out' = <<<<"S","t","a","r","t","u","p"," ","s","c","r","i","p","t"," ","n","o","t"," ",
        "f","o","u","n","d">>, <<"S","t","a","r","t","u","p"," ","s","c","r","i","p","t"," ","f",
        "a","i","l","e","d",".">>>>
    /\ UNCHANGED <<root, cwd, command_history, prompt, script, idx, nrepl,
                   dispatched>>

\* run_startup_script: lines = f.readlines()
ReadScript(lines) ==
    /\ pc = "loaded"
    /\ pc' = "script"
    /\ script' = lines
    /\ idx' = 1
    /\ call' = [NoCall EXCEPT !.op = "read"]
    /\ out' = <<>>
    /\ UNCHANGED <<root, cwd, command_history, prompt, nrepl, dispatched>>

\* a comment test that does not trim the line first
IsComment_NoStrip(line) == StartsWith(line, "#")

\* line.strip().startswith('#')
IsComment(line) == StartsWith(Strip(line, WS), "#")

\* run_startup_script: one iteration of the for loop
ScriptLine ==
    /\ pc = "script"
    /\ idx <= Len(script)
    /\ LET line == RStrip(script[idx], {"\n"})
           p == parse_input(line)
           hist == RecordHistory(command_history, line)
           r == handle_command(p.cmd, p.args, root, cwd, hist, TRUE)
           echo == make_prompt(cwd, prompt) \o line
       IN  IF IsComment(line)
           THEN /\ out' = <<<<"#"," ">> \o Strip(Tail(Strip(line, WS)), WS)>>
                /\ idx' = idx + 1
                /\ call' = [NoCall EXCEPT !.op = "comment", !.line = line]
                /\ UNCHANGED <<cwd, command_history, pc, dispatched>>
           ELSE IF ~p.ok
           THEN /\ out' = <<echo>> \o p.printed
                           \o <<<<"S","c","r","i","p","t",":"," ","p","a","r","s","e"," ","e",
                               "r","r","o","r">>,
                                <<"S","t","a","r","t","u","p"," ","s","c","r","i","p","t"," ",
                                    "f","a","i","l","e","d",".">>>>
                /\ pc' = "exit1"
                /\ call' = [NoCall EXCEPT !.op = "parsefail", !.line = line,
                                          !.script_mode = TRUE]
                /\ UNCHANGED <<cwd, command_history, idx, dispatched>>
           ELSE /\ command_history' = hist
                /\ dispatched' = Append(dispatched, line)
                /\ cwd' = r.cwd
                /\ out' = <<echo>> \o r.printed
                           \o (IF r.ret THEN <<>>
                               ELSE <<<<"S","c","r","i","p","t"," ","s","t","o","p","p","e","d",
                                   " ","a","t",":"," ">> \o line,
                                      <<"S","t","a","r","t","u","p"," ","s","c","r","i","p","t",
                                          " ","f","a","i","l","e","d",".">>>>)
                /\ pc' = AfterScriptDispatch(r.ret)
                /\ idx' = IF r.ret THEN idx + 1 ELSE idx
                /\ call' = [NoCall EXCEPT !.op = "dispatch", !.line = line,
                               !.cmd = p.cmd, !.args = p.args,
                               !.script_mode = TRUE, !.ret = r.ret, !.wd = cwd]
    /\ UNCHANGED <<root, prompt, script, nrepl>>

\* run_startup_script returns True, main goes on to repl
ScriptEnd ==
    /\ pc = "script"
    /\ idx > Len(script)
    /\ pc' = "repl"
    /\ call' = [NoCall EXCEPT !.op = "scriptok"]
    /\ out' = <<<<"S","t","a","r","t","u","p"," ","s","c","r","i","p","t"," ","O","K",".">>,
        <<>>>>
    /\ UNCHANGED <<root, cwd, command_history, prompt, script, idx, nrepl,
                   dispatched>>

\* repl: one iteration of the while loop, input() returning `line`
ReplLine(line) ==
    /\ pc = "repl"
    /\ nrepl < MaxRepl
    /\ nrepl' = nrepl + 1
    /\ LET p == parse_input(line)
           hist == RecordHistory(command_history, line)
           r == handle_command(p.cmd, p.args, root, cwd, hist, FALSE)
           shown == make_prompt(cwd, prompt)
       IN  IF ~p.ok
           THEN /\ out' = <<shown>> \o p.printed
                /\ call' = [NoCall EXCEPT !.op = "parsefail", !.line = line]
                /\ UNCHANGED <<cwd, command_history, pc, dispatched>>
           ELSE /\ command_history' = hist
                /\ dispatched' = Append(dispatched, line)
                /\ cwd' = r.cwd
                /\ out' = <<shown>> \o r.printed
                /\ pc' = AfterReplDispatch(r.ret)
                /\ call' = [NoCall EXCEPT !.op = "dispatch", !.line = line,
                               !.cmd = p.cmd, !.args = p.args,
                               !.script_mode = FALSE, !.ret = r.ret, !.wd = cwd]
    /\ UNCHANGED <<root, prompt, script, idx>>

\* repl: input() raises EOFError or KeyboardInterrupt
ReplEOF ==
    /\ pc = "repl"
    /\ pc' = "exit0"
    /\ call' = [NoCall EXCEPT !.op = "eof"]
    /\ out' = <<make_prompt(cwd, prompt), <<>>>>
    /\ UNCHANGED <<root, cwd, command_history, prompt, script, idx, nrepl,
                   dispatched>>

Next ==
    \/ \E archive \in DriverArchives : LoadVFS(archive)
    \/ NoStartupScript
    \/ ScriptUnreadable
    \/ \E lines \in Scripts : ReadScript(lines)
    \/ ScriptLine
    \/ ScriptEnd
    \/ \E line \in Lines : ReplLine(line)
    \/ ReplEOF

Spec == Init /\ [][Next]_vars

(***************************************************************************)
(* The VFS and the dispatcher called directly on a loaded VFS               *)
(***************************************************************************)
\* a resolve that walks with setdefault, creating the segments it misses
resolve_state_SetDefault(tree, wd, path) ==
    LET segs == IF path.kind = "str" THEN Split(Strip(path.str, {SLASH}), SLASH)
                ELSE path.list
        v == AddDirAt(tree, segs)
    IN  [root |-> IF v = Raised THEN tree ELSE v, cwd |-> wd]

\* what a call of VFS.resolve leaves behind: it reads self.root and assigns
\* neither self.root, nor self.cwd, nor any dict of the tree
resolve_state(tree, wd, path) == [root |-> tree, cwd |-> wd]

\* handle_command(cmd, args, vfs, script_mode) on the loaded VFS
Dispatch(cmd, args, script_mode) ==
    /\ pc = "loaded"
    /\ LET r == handle_command(cmd, args, root, cwd, command_history,
                               script_mode)
       IN  /\ cwd' = r.cwd
           /\ out' = r.printed
           /\ call' = [NoCall EXCEPT !.op = "dispatch", !.cmd = cmd,
                          !.args = args, !.script_mode = script_mode,
                          !.ret = r.ret, !.wd = cwd]
    /\ UNCHANGED <<root, command_history, pc, prompt, script, idx, nrepl,
                   dispatched>>

\* vfs.resolve(path) on the loaded VFS
Resolve(path) ==
    /\ pc = "loaded"
    /\ root' = resolve_state(root, cwd, path).root
    /\ cwd' = resolve_state(root, cwd, path).cwd
    /\ call' = [NoCall EXCEPT !.op = "resolve", !.path = path,
                              !.res = resolve(root, path), !.wd = cwd]
    /\ out' = <<>>
    /\ UNCHANGED <<command_history, pc, prompt, script, idx, nrepl,
                   dispatched>>

InitVFS == Init /\ prompt = <<>>

NextVFS ==
    \/ \E archive \in VfsArchives : LoadVFS(archive)
    \/ \E c \in Calls, m \in BOOLEAN : Dispatch(c[1], c[2], m)
    \/ \E path \in ResolveArgs : Resolve(path)

SpecVFS == InitVFS /\ [][NextVFS]_vars

(***************************************************************************)
(* The data model the properties are stated in                              *)
(***************************************************************************)
\* a File: a dict tagged 'type': 'file'
IsFile(n) ==
    /\ n.t = "dict"
    /\ \E i \in 1..Len(n.kv) :
          n.kv[i].k = K_type /\ n.kv[i].v.t = "str" /\ n.kv[i].v.s = S_file

\* a Directory: a dict that is not a File
IsDirectory(n) == n.t = "dict" /\ ~IsFile(n)

\* the child named seg of the dict n, None if there is none
Child(n, seg) ==
    IF n.t = "dict" /\ (\E i \in 1..Len(n.kv) : n.kv[i].k = seg)
    THEN n.kv[CHOOSE i \in 1..Len(n.kv) : n.kv[i].k = seg].v
    ELSE None

\* the node the segments lead to from n, every segment existing; else None
RECURSIVE WalkTo(_, _)
WalkTo(n, segs) ==
    IF segs = <<>> THEN n
    ELSE IF n = None THEN None
    ELSE WalkTo(Child(n, Head(segs)), Tail(segs))

\* a tree whose every node is a File exactly as add_file stores it, or a
\* Directory of such nodes
RECURSIVE WellFormed(_)
WellFormed(n) ==
    \/ n = FileDict
    \/ /\ IsDirectory(n)
       /\ \A i \in 1..Len(n.kv) : WellFormed(n.kv[i].v)

\* every name of the tree is non-empty
RECURSIVE NamesNonEmpty(_)
NamesNonEmpty(n) ==
    \/ IsFile(n)
    \/ n.t # "dict"
    \/ \A i \in 1..Len(n.kv) : n.kv[i].k # <<>> /\ NamesNonEmpty(n.kv[i].v)

DOT == <<".">>
DOTDOT == <<".", ".">>

\* the segments of a path expression, and where they start from
PathSegments(path) == Split(path, SLASH)
PathStart(wd, path) == IF path # <<>> /\ Head(path) = SLASH THEN <<>> ELSE wd

\* lexical normalisation: empty and `.` segments dropped, each `..` removing
\* the segment before it, clamped at the root
RECURSIVE NormalSegments(_, _)
NormalSegments(stack, segs) ==
    IF segs = <<>> THEN stack
    ELSE IF Head(segs) \in {<<>>, DOT} THEN NormalSegments(stack, Tail(segs))
    ELSE IF Head(segs) = DOTDOT
         THEN NormalSegments(IF stack = <<>> THEN <<>>
                             ELSE SubSeq(stack, 1, Len(stack) - 1), Tail(segs))
    ELSE NormalSegments(Append(stack, Head(segs)), Tail(segs))

\* some segment names a child that does not exist in the directory reached
\* by the segments before it
RECURSIVE MissingSegment(_, _, _)
MissingSegment(tree, stack, segs) ==
    IF segs = <<>> THEN FALSE
    ELSE IF Head(segs) \in {<<>>, DOT}
         THEN MissingSegment(tree, stack, Tail(segs))
    ELSE IF Head(segs) = DOTDOT
         THEN MissingSegment(tree, IF stack = <<>> THEN <<>>
                                   ELSE SubSeq(stack, 1, Len(stack) - 1),
                             Tail(segs))
    ELSE \/ Child(WalkTo(tree, stack), Head(segs)) = None
         \/ MissingSegment(tree, Append(stack, Head(segs)), Tail(segs))

CMD_cd == <<"c","d">>
CMD_find == <<"f","i","n","d">>
CMD_exit == <<"e","x","i","t">>
Builtins == {<<"e","x","i","t">>, <<"e","c","h","o">>, <<"p","w","d">>, <<"l","s">>, <<"c","d">>,
    <<"f","i","n","d">>,
             <<"h","i","s","t","o","r","y">>, <<"h","e","l","p">>}

IsDispatch == call.op = "dispatch"
IsCd == IsDispatch /\ call.cmd = CMD_cd
IsCdPath == IsCd /\ call.args # <<>>

(***************************************************************************)
(* C1                                                                       *)
(***************************************************************************)
\* C1: at every moment the working-directory sequence leads from the root,
\* every segment existing, to a Directory, never to a File or to nothing
C1_CwdDenotesDirectory == IsDirectory(WalkTo(root, cwd))

\* a cd below the root has succeeded, and a later cd has failed from there
C1_Witness ==
    /\ IsCdPath /\ ~call.ret
    /\ call.wd # <<>> /\ cwd = call.wd
    /\ IsDirectory(WalkTo(root, cwd))

(***************************************************************************)
(* C2                                                                       *)
(***************************************************************************)
\* C2: a cd whose path expression has a segment naming a child that does not
\* exist in the directory reached by the segments before it fails (Stop in
\* scripted mode) and leaves the working directory as it was
C2_CdMissingSegmentFails ==
    (IsCdPath /\ MissingSegment(root, PathStart(call.wd, call.args[1]),
                                PathSegments(call.args[1])))
    => (cwd = call.wd /\ call.ret = ~call.script_mode
        /\ out = <<<<"c","d",":"," ","n","o"," ","s","u","c","h"," ","d","i","r","e","c","t","o",
            "r","y",":"," ">> \o call.args[1]>>)

(***************************************************************************)
(* C3                                                                       *)
(***************************************************************************)
\* the paths of the nodes named X, depth first in insertion order
RECURSIVE NodesNamed(_, _, _)
NodesNamed(n, prefix, X) ==
    IF ~IsDirectory(n) THEN <<>>
    ELSE LET F[i \in 0..Len(n.kv)] ==
                 IF i = 0 THEN <<>>
                 ELSE LET p == IF prefix = <<>> THEN n.kv[i].k
                               ELSE prefix \o <<SLASH>> \o n.kv[i].k
                      IN  F[i - 1]
                          \o (IF n.kv[i].k = X THEN <<p>> ELSE <<>>)
                          \o NodesNamed(n.kv[i].v, p, X)
         IN  F[Len(n.kv)]

\* C3: on a tree of Files and Directories with non-empty names, find X emits
\* the path of every node named X, once each, depth first in insertion order,
\* whatever the working directory
C3_FindEmitsEveryNodeNamed ==
    (IsDispatch /\ call.cmd = CMD_find /\ call.args # <<>>
       /\ WellFormed(root) /\ NamesNonEmpty(root))
    => out = NodesNamed(root, <<>>, call.args[1])

(***************************************************************************)
(* C4                                                                       *)
(***************************************************************************)
\* the conditions under which dispatch fails
DispatchFails ==
    \/ IsCd /\ call.args = <<>>
    \/ IsCdPath /\ ~IsDirectory(WalkTo(root,
           NormalSegments(PathStart(call.wd, call.args[1]),
                          PathSegments(call.args[1]))))
    \/ IsDispatch /\ call.cmd \notin Builtins

\* C4: cd without argument, cd to what is no Directory and an unknown
\* command return Stop in scripted mode and Continue in interactive mode
C4_FailPolicyPerMode ==
    DispatchFails => (call.ret = ~call.script_mode)

\* a scripted cd to a missing directory has returned Stop
C4_Witness ==
    /\ IsCdPath /\ call.script_mode /\ ~call.ret
    /\ DispatchFails

(***************************************************************************)
(* C5                                                                       *)
(***************************************************************************)
\* C5: in interactive mode only `exit` returns Stop, after any other line the
\* session keeps reading; `exit` returns Stop in both modes
C5_OnlyExitStopsSession ==
    /\ (IsDispatch /\ ~call.script_mode)
          => /\ (~call.ret <=> call.cmd = CMD_exit)
             /\ (call.ret => pc = "repl")
    /\ (IsDispatch /\ call.cmd = CMD_exit) => ~call.ret

\* an unknown command was typed at the prompt and the session goes on
C5_Witness ==
    /\ IsDispatch /\ ~call.script_mode /\ call.cmd = <<"f","o","o">>
    /\ call.ret /\ pc = "repl"

(***************************************************************************)
(* C6                                                                       *)
(***************************************************************************)
Last(q) == q[Len(q)]

\* a script line that is only echoed: trimmed, it starts with the marker #
IsCommentLine(line) ==
    LET trimmed == Strip(line, WS) IN trimmed # <<>> /\ Head(trimmed) = "#"

NotCommentLine(line) == ~IsCommentLine(line)

\* the non-comment lines among the raw lines `lines`, without their newline
NonComment(lines) ==
    SelectSeq([i \in 1..Len(lines) |-> RStrip(lines[i], {"\n"})],
              NotCommentLine)

MSG_failed == <<"S","t","a","r","t","u","p"," ","s","c","r","i","p","t"," ","f","a","i","l","e",
    "d",".">>
MSG_ok == <<"S","t","a","r","t","u","p"," ","s","c","r","i","p","t"," ","O","K",".">>

\* the scripted run has just halted at a line whose dispatch returned Stop
ScriptStopped == IsDispatch /\ call.script_mode /\ ~call.ret

\* the scripted run has just halted at a line that failed tokenization
ScriptParseFailed == call.op = "parsefail" /\ call.script_mode

\* the scripted run has just returned after its last line
ScriptCompleted == call.op = "scriptok"

\* the run halts at the first Stop: failure is reported, nothing more
\* happens, History is the non-comment lines up to the stopping line
HaltsAtFirstStop ==
    ScriptStopped =>
        /\ pc = "exit1" /\ Last(out) = MSG_failed
        /\ ~ENABLED Next
        /\ call.line = RStrip(script[idx], {"\n"})
        /\ command_history = NonComment(SubSeq(script, 1, idx))
        /\ dispatched = command_history

\* the run reports success, every non-comment line having been dispatched
ReportsSuccess ==
    /\ pc = "repl" /\ out[1] = MSG_ok
    /\ dispatched = NonComment(script)
    /\ command_history = NonComment(script)

\* C6 as claimed: the run halts at the first Stop, and a run in which no
\* line returns Stop reports success after dispatching every non-comment line
C6_NoStopMeansSuccess ==
    /\ HaltsAtFirstStop
    /\ (ScriptCompleted \/ ScriptParseFailed) => ReportsSuccess

\* C6 amended: the run halts at the first Stop, and a run in which no line
\* returns Stop and no line fails tokenization reports success after
\* dispatching every non-comment line
C6_HaltsAtFirstStop ==
    /\ HaltsAtFirstStop
    /\ ScriptCompleted => ReportsSuccess

\* a script of two lines has stopped at its second line, an unknown command
C6_Witness ==
    /\ ScriptStopped /\ idx = 2 /\ call.cmd = <<"f","o","o">>
    /\ Len(command_history) = 2 /\ pc = "exit1"

(***************************************************************************)
(* C7                                                                       *)
(***************************************************************************)
IsPrefix(p, q) == Len(p) <= Len(q) /\ SubSeq(q, 1, Len(p)) = p

\* C7: History is the raw lines dispatched so far, in dispatch order, one
\* entry per dispatched line, and every step keeps the previous History as
\* a prefix of the new one
C7_HistoryIsDispatchedLines ==
    /\ [](command_history = dispatched)
    /\ [][IsPrefix(command_history, command_history')]_vars

\* scripted lines and then interactive lines have been dispatched
C7_Witness ==
    /\ pc = "repl" /\ nrepl = 2 /\ Len(NonComment(script)) = 2
    /\ Len(command_history) = 4

(***************************************************************************)
(* C8                                                                       *)
(***************************************************************************)
\* C8: a line is appended to History before it is tokenized, so a line whose
\* tokenization fails is the last History entry, in both modes
C8_RecordedBeforeTokenized ==
    call.op = "parsefail"
    => (command_history # <<>> /\ Last(command_history) = call.line)

(***************************************************************************)
(* C9                                                                       *)
(***************************************************************************)
\* the segments of an argument of resolve
ArgSegments(path) ==
    IF path.kind = "str" THEN PathSegments(path.str) ELSE path.list

IsResolve == call.op = "resolve"

\* C9: resolve applied to a path with a `..` segment pops the last resolved
\* segment, clamped at the root, and returns the node the normalized path
\* denotes
C9_ResolveHandlesDotDot ==
    (/\ IsResolve
     /\ call.path.kind = "str" => StartsWith(call.path.str, SLASH)
     /\ \E i \in 1..Len(ArgSegments(call.path)) :
           ArgSegments(call.path)[i] = DOTDOT)
    => call.res = WalkTo(root, NormalSegments(<<>>, ArgSegments(call.path)))

(***************************************************************************)
(* C10                                                                      *)
(***************************************************************************)
\* C10: a call to resolve leaves the tree and the working directory as they
\* were
C10_ResolveIsPure ==
    [][call'.op = "resolve" => (root' = root /\ cwd' = cwd)]_vars

\* resolve has returned a node of a non-empty tree, away from the root
C10_Witness ==
    /\ IsResolve /\ IsDirectory(call.res) /\ call.res # root
    /\ cwd # <<>>

(***************************************************************************)
(* C11                                                                      *)
(***************************************************************************)
CMD_pwd == <<"p","w","d">>

\* every segment is `..`, `.` or empty
OnlyDots(segs) == \A i \in 1..Len(segs) : segs[i] \in {<<>>, DOT, DOTDOT}

\* C11: at the root, a cd whose path is made only of `..`, `.` and empty
\* segments succeeds in both modes (Continue, nothing reported), leaves the
\* working directory empty, and pwd then renders exactly `/`
C11_CdUpAtRootIsNoOp ==
    /\ (IsCdPath /\ call.wd = <<>> /\ OnlyDots(PathSegments(call.args[1])))
       => /\ call.ret /\ out = <<>>
          /\ cwd = <<>>
          /\ pwd(cwd) = <<"/">>
    /\ (IsDispatch /\ call.cmd = CMD_pwd /\ cwd = <<>>) => out = <<<<"/">>>>

\* a scripted `cd ..` at the root of a non-empty tree has returned Continue
C11_Witness ==
    /\ IsCdPath /\ call.script_mode /\ call.wd = <<>>
    /\ call.args = <<DOTDOT>>
    /\ root # EmptyDict
    /\ call.ret /\ cwd = <<>>

(***************************************************************************)
(* C12                                                                      *)
(***************************************************************************)
\* C12: find returns Continue in both modes whatever its argument list, and
\* emits nothing when no node bears the name
C12_FindNeverFails ==
    (IsDispatch /\ call.cmd = CMD_find)
    => /\ call.ret
       /\ (call.args = <<>> \/ NodesNamed(root, <<>>, call.args[1]) = <<>>)
          => out = <<>>

(***************************************************************************)
(* C13                                                                      *)
(***************************************************************************)
\* the scripted run is about to read a comment line
AtCommentLine ==
    /\ pc = "script" /\ idx <= Len(script)
    /\ IsCommentLine(RStrip(script[idx], {"\n"}))

\* C13: a script line that, trimmed, starts with `#` is only echoed: the
\* step that reads it prints the one comment line, appends nothing to the
\* history, dispatches nothing, leaves the tree and the working directory
\* alone, and the run goes on with the next line
C13_CommentOnlyEchoed ==
    [][AtCommentLine
       => /\ command_history' = command_history
          /\ dispatched' = dispatched
          /\ cwd' = cwd /\ root' = root
          /\ pc' = "script" /\ idx' = idx + 1
          /\ call'.op = "comment"
          /\ out' = <<<<"#"," ">> \o Strip(Tail(Strip(script[idx], WS)), WS)>>]_vars

\* a comment has been read as the second line, after a cd that succeeded
C13_Witness ==
    /\ call.op = "comment" /\ pc = "script" /\ idx = 3
    /\ cwd # <<>> /\ command_history # <<>>
    /\ Len(command_history) = 1

(***************************************************************************)
(* C14                                                                      *)
(***************************************************************************)
\* an absolute path rendered from its segments: `/` for the root, else each
\* segment preceded by `/`
RECURSIVE Rendered(_)
Rendered(segs) ==
    IF segs = <<>> THEN <<"/">>
    ELSE IF Len(segs) = 1 THEN <<"/">> \o segs[1]
    ELSE Rendered(SubSeq(segs, 1, Len(segs) - 1)) \o <<"/">> \o segs[Len(segs)]

\* a cd given a path has succeeded: nothing reported
CdSucceeded == IsCdPath /\ out = <<>>

\* C14: pwd prints the working directory rendered as an absolute path, and
\* after a cd that succeeded it is the lexically normalized path of the
\* argument taken against the working directory before
C14_PwdRendersNormalizedPath ==
    /\ (IsDispatch /\ call.cmd = CMD_pwd) => out = <<Rendered(cwd)>>
    /\ CdSucceeded
       => pwd(cwd) = Rendered(NormalSegments(PathStart(call.wd, call.args[1]),
                                             PathSegments(call.args[1])))

\* from /a/b, `cd ..` has led to /a
C14_Witness ==
    /\ CdSucceeded /\ call.args = <<DOTDOT>>
    /\ call.wd = <<<<"a">>, <<"b">>>>
    /\ pwd(cwd) = <<"/","a">>

(***************************************************************************)
(* C15                                                                      *)
(***************************************************************************)
\* a cd has failed: no argument, or `no such directory` reported
CdFailed == IsCd /\ out # <<>>

\* C15: in both modes a dispatch leaves the working directory as it was
\* unless it is a cd that succeeded; a cd that failed (argument missing,
\* target absent, target a File) and every other command change nothing of
\* it, not even part of the path
C15_OnlySuccessfulCdMovesCwd ==
    IsDispatch
    => /\ cwd # call.wd => CdSucceeded
       /\ CdFailed => cwd = call.wd
       /\ ~IsCd => cwd = call.wd

\* a cd through an existing directory to a missing segment has failed and
\* the working directory stayed where it was
C15_Witness ==
    /\ CdFailed /\ call.args = <<<<"a","/","t","y","p","e">>>>
    /\ cwd = call.wd
    /\ IsDirectory(Child(WalkTo(root, cwd), <<"a">>))

(***************************************************************************)
(* C16                                                                      *)
(***************************************************************************)
IsNameSegment(seg) == seg \notin {<<>>, DOT}

\* some segment of segs before the last denotes a File of the tree
FileBeforeLast(tree, segs) ==
    \E k \in 1..(Len(segs) - 1) : IsFile(WalkTo(tree, SubSeq(segs, 1, k)))

\* some segment of segs, the last included, denotes a File of the tree
FileOnPath(tree, segs) ==
    \E k \in 1..Len(segs) : IsFile(WalkTo(tree, SubSeq(segs, 1, k)))

\* C16: resolve returns NotFound for a path in which a segment before the
\* last denotes a File, whatever the next segment is named, and a cd to a
\* path that denotes a File or passes through one fails
C16_FilesHaveNoChildren ==
    /\ (IsResolve
        /\ FileBeforeLast(root, SelectSeq(ArgSegments(call.path),
                                          IsNameSegment)))
       => call.res = None
    /\ (IsCdPath
        /\ FileOnPath(root, NormalSegments(PathStart(call.wd, call.args[1]),
                                           PathSegments(call.args[1]))))
       => CdFailed /\ cwd = call.wd

(***************************************************************************)
(* C17                                                                      *)
(***************************************************************************)
\* C17: whatever names the archive lists, every node of the tree built is a
\* File exactly as add_file stores it, holding no child entries, or a
\* Directory of such nodes
C17_NodesAreFileOrDirectory == WellFormed(root)

(***************************************************************************)
(* C18                                                                      *)
(***************************************************************************)
\* no directory of the tree has a child named `.`, `..` or the empty string
RECURSIVE NoDotNames(_)
NoDotNames(n) ==
    \/ ~IsDirectory(n)
    \/ \A i \in 1..Len(n.kv) :
          /\ n.kv[i].k \notin {<<>>, DOT, DOTDOT}
          /\ NoDotNames(n.kv[i].v)

\* C18: whatever names the archive lists, repeated slashes included, no
\* directory of the tree built has a child named `.`, `..` or the empty
\* string
C18_NoDotOrEmptyNames == NoDotNames(root)

(***************************************************************************)
(* C19                                                                      *)
(***************************************************************************)
\* a line that is empty or whitespace only
BlankLine(line) == Strip(line, WS) = <<>>

MSG_notfound == <<"C","o","m","m","a","n","d"," ","n","o","t"," ","f","o","u","n","d",":"," ">>

\* C19: a blank line read by either driver is dispatched as the command with
\* the empty name: it is appended to the history and reported as not found;
\* the scripted run echoes it and halts with failure there, never passing
\* it, and the interactive session continues
C19_BlankLineIsDispatched ==
    /\ (call.op \in {"dispatch", "parsefail"} /\ BlankLine(call.line))
       => /\ IsDispatch /\ call.cmd = <<>> /\ call.args = <<>>
          /\ command_history # <<>> /\ Last(command_history) = call.line
          /\ Last(dispatched) = call.line
          /\ out[2] = MSG_notfound
          /\ call.script_mode
             => /\ ~call.ret /\ pc = "exit1"
                /\ out[1] = make_prompt(call.wd, prompt) \o call.line
                /\ Last(out) = MSG_failed
                /\ BlankLine(script[idx])
          /\ ~call.script_mode => call.ret /\ pc = "repl" /\ Len(out) = 2
    /\ \A i \in 1..Len(script) : i < idx => ~BlankLine(script[i])

\* the scripted run has halted at a whitespace-only second line
C19_Witness ==
    /\ IsDispatch /\ call.script_mode /\ call.line = <<" ">>
    /\ idx = 2 /\ pc = "exit1"
    /\ Len(command_history) = 2

(***************************************************************************)
(* C20                                                                      *)
(***************************************************************************)
CMD_history == <<"h","i","s","t","o","r","y">>

\* C20: in both modes the line being dispatched is already the last entry of
\* the history: the history command lists it last, under its own number, and
\* a line whose dispatch returned Stop, exit included, is in the history
\* when the driver has halted
C20_RecordedBeforeDispatch ==
    IsDispatch
    => /\ command_history # <<>> /\ Last(command_history) = call.line
       /\ call.cmd = CMD_history
          => /\ Len(out) = 1 + Len(command_history)
             /\ Last(out) = Fmt3(Len(command_history)) \o <<":"," ">> \o call.line
       /\ ~call.ret
          => /\ pc \in {"exit0", "exit1"}
             /\ \E i \in 1..Len(command_history) :
                   command_history[i] = call.line

\* history has been typed as the second recorded line and lists itself last
C20_Witness ==
    /\ IsDispatch /\ call.cmd = CMD_history /\ ~call.script_mode
    /\ Len(command_history) = 2
    /\ command_history[1] # call.line
    /\ Last(out) = <<" "," ","2",":"," ","h","i","s","t","o","r","y">>

====
